---- MODULE Spec2Model ----
(***************************************************************************)
(* Model of Homework-2: BSMonteCarlo.py (InterpolateRateCurve,             *)
(* BSMonteCarlo) and MCStockPrices.py (MCStockPrices).                     *)
(*                                                                         *)
(* Floating point numbers are modelled as fixed-point integers in units of *)
(* 1/SCALE; exp and sqrt are computed in that arithmetic.  numpy arrays    *)
(* are sequences (1-D) and sequences of rows (2-D), with numpy's           *)
(* broadcasting rules written out.  A Python call is one action; the       *)
(* process-wide random generator is the count of values drawn from it.     *)
(***************************************************************************)
EXTENDS Integers, Sequences, FiniteSets, TLC

VARIABLES pc, call, result, locals, rng, rngEntry

vars == <<pc, call, result, locals, rng, rngEntry>>

(***************************************************************************)
(* Bounds of the model.                                                    *)
(***************************************************************************)
\* longest caller-supplied sample buffer, and the largest checkpoint value
MaxSamples == 3
\* longest checkpoints list
MaxCheckpoints == 2
\* largest number of rows / columns of a sample matrix, and of fixing times
MaxDim == 2
\* number of terms of the series that computes exp
ExpTerms == 10

(***************************************************************************)
(* Fixed-point arithmetic.                                                 *)
(***************************************************************************)
\* one unit; a multiple of 12 so that the monthly tenors are exact
SCALE == 12 * 100

\* float('nan'): a value that is no number of the model
NaN == 0 - (2 ^ 30)

IsNaN(x) == x = NaN

FMul(a, b) == (a * b) \div SCALE

FDiv(a, b) == (a * SCALE) \div b

Max(a, b) == IF a >= b THEN a ELSE b

RECURSIVE ExpSeries(_, _, _, _)
ExpSeries(x, n, term, acc) ==
    IF n > ExpTerms THEN acc
    ELSE LET next == (term * x) \div (n * SCALE)
         IN  ExpSeries(x, n + 1, next, acc + next)

\* numpy.exp
Exp(x) == Max(0, ExpSeries(x, 1, SCALE, SCALE))

RECURSIVE SqrtIter(_, _)
SqrtIter(n, g) ==
    LET h == (g + n \div g) \div 2
    IN  IF h >= g THEN g ELSE SqrtIter(n, h)

ISqrt(n) == IF n <= 0 THEN 0 ELSE SqrtIter(n, n)

\* numpy.sqrt
Sqrt(x) == ISqrt(x * SCALE)

RECURSIVE Sum(_)
Sum(s) == IF s = <<>> THEN 0 ELSE Head(s) + Sum(Tail(s))

\* numpy.mean; nan for an empty array
Mean(s) == IF s = <<>> THEN NaN ELSE Sum(s) \div Len(s)

SqDevs(s) == [i \in 1..Len(s) |-> FMul(s[i] - Mean(s), s[i] - Mean(s))]

\* numpy.std: the population standard deviation (ddof = 0)
Std(s) == IF s = <<>> THEN NaN ELSE Sqrt(Sum(SqDevs(s)) \div Len(s))

\* scipy.stats.sem: the sample standard deviation (ddof = 1) over sqrt(n);
\* nan when there are fewer than two values
Sem(s) ==
    IF Len(s) < 2 THEN NaN
    ELSE FDiv(Sqrt(Sum(SqDevs(s)) \div (Len(s) - 1)), Sqrt(Len(s) * SCALE))

(***************************************************************************)
(* Python values.                                                          *)
(***************************************************************************)
None == [isNone |-> TRUE]

Some(x) == [isNone |-> FALSE, val |-> x]

IsNone(x) == x.isNone

Raise(exc, msg) == [kind |-> "raise", exc |-> exc, msg |-> msg]

Returned(v) == [kind |-> "return", value |-> v]

Last(s) == s[Len(s)]

\* s[:c] for c >= 0
Prefix(s, c) == SubSeq(s, 1, IF c < Len(s) THEN c ELSE Len(s))

\* a Python float, and a 1-D sequence of floats
Scalar(x) == [nd |-> 0, x |-> x]

Vector(s) == [nd |-> 1, v |-> s]

(***************************************************************************)
(* BSMonteCarlo.py                                                         *)
(***************************************************************************)
Yr == SCALE

RATE_CURVE_TENORS ==
    << Yr \div 12, (2 * Yr) \div 12, (3 * Yr) \div 12, (6 * Yr) \div 12,
       Yr, 2 * Yr, 3 * Yr, 5 * Yr, 7 * Yr, 10 * Yr, 20 * Yr, 30 * Yr >>

\* numpy.interp(x, xp, fp) at one point: piecewise linear, clamped at the ends
Interp(x, xp, fp) ==
    LET n == Len(xp)
    IN  IF x <= xp[1] THEN fp[1]
        ELSE IF x >= xp[n] THEN fp[n]
        ELSE LET i == CHOOSE k \in 1..(n - 1) : xp[k] <= x /\ x < xp[k + 1]
             IN  fp[i] + ((x - xp[i]) * (fp[i + 1] - fp[i])) \div (xp[i + 1] - xp[i])

InterpolateRateCurve(curve, T, tenors) ==
    IF IsNone(curve) THEN Raise("ValueError", "Yield curve can not be None")
    ELSE LET tn == IF IsNone(tenors) THEN RATE_CURVE_TENORS ELSE tenors.val
         IN  IF Len(tn) # Len(curve.val) THEN Returned(None)
             ELSE IF T.nd = 0
                  THEN Returned(Some(Scalar(Interp(T.x, tn, curve.val))))
                  ELSE Returned(Some(Vector(
                          [i \in 1..Len(T.v) |-> Interp(T.v[i], tn, curve.val)])))

\* CheckArgs with the last check written sigma < 0
CheckArgs_SigmaZeroPasses(S0, K, T, sigma, checkpoints, rateCurve) ==
    IF IsNaN(K) THEN "Strike price can not be NaN"
    ELSE IF IsNaN(S0) THEN "Underlying price can not be NaN"
    ELSE IF IsNaN(T) THEN "Time to expiration can not be NaN"
    ELSE IF IsNaN(sigma) THEN "Volatility can not be NaN"
    ELSE IF IsNone(rateCurve) THEN "Yield curve can not be None"
    ELSE IF IsNone(checkpoints) THEN "checkpoints can not be None"
    ELSE IF S0 <= 0 THEN "Underlying price can not be zero or negative"
    ELSE IF K <= 0 THEN "Strike price can not be zero or negative"
    ELSE IF T <= 0 THEN "Expiration time can not be zero or negative"
    ELSE IF sigma < 0 THEN "Volatility can not be zero or negative"
    ELSE ""

\* lines 84-105: the message of the first check that fails, "" when none does
CheckArgs(S0, K, T, sigma, checkpoints, rateCurve) ==
    IF IsNaN(K) THEN "Strike price can not be NaN"
    ELSE IF IsNaN(S0) THEN "Underlying price can not be NaN"
    ELSE IF IsNaN(T) THEN "Time to expiration can not be NaN"
    ELSE IF IsNaN(sigma) THEN "Volatility can not be NaN"
    ELSE IF IsNone(rateCurve) THEN "Yield curve can not be None"
    ELSE IF IsNone(checkpoints) THEN "checkpoints can not be None"
    ELSE IF S0 <= 0 THEN "Underlying price can not be zero or negative"
    ELSE IF K <= 0 THEN "Strike price can not be zero or negative"
    ELSE IF T <= 0 THEN "Expiration time can not be zero or negative"
    ELSE IF sigma <= 0 THEN "Volatility can not be zero or negative"
    ELSE ""

\* SampleCount taking the first checkpoint
SampleCount_First(checkpoints) == checkpoints[1]

\* line 107: M = checkpoints[-1]
SampleCount(checkpoints) == Last(checkpoints)

\* NotEnoughSamples off by one
NotEnoughSamples_OffByOne(samples, M) == Len(samples) <= M

\* line 112: the supplied buffer is too short
NotEnoughSamples(samples, M) == Len(samples) < M

\* lines 127-128 for one sample z
Payoff(S0, K, T, sigma, r, z) ==
    LET disc == Exp(0 - FMul(r, T))
        drift == FMul(r - (FMul(sigma, sigma) \div 2), T)
        ST == FMul(S0, Exp(drift + FMul(FMul(sigma, Sqrt(T)), z)))
    IN  FMul(disc, Max(0, ST - K))

\* Vals without the slice: over the whole buffer at every checkpoint
Vals_WholeBuffer(S0, K, T, sigma, r, samples, c) ==
    [j \in 1..Len(samples) |-> Payoff(S0, K, T, sigma, r, samples[j])]

\* line 127-128: vals at checkpoint c, over samples[:c]
Vals(S0, K, T, sigma, r, samples, c) ==
    LET used == Prefix(samples, c)
    IN  [j \in 1..Len(used) |-> Payoff(S0, K, T, sigma, r, used[j])]

\* lines 120-140: the loop over the checkpoints and the record returned
RunningStats(S0, K, T, sigma, r, samples, checkpoints) ==
    LET n == Len(checkpoints)
        vals(i) == Vals(S0, K, T, sigma, r, samples, checkpoints[i])
        means == [i \in 1..n |-> Mean(vals(i))]
    IN  [ TV |-> means[n],
          Means |-> means,
          StdDevs |-> [i \in 1..n |-> Std(vals(i))],
          StdErrs |-> [i \in 1..n |-> Sem(vals(i))] ]

\* lines 120-132: len(vals) in each iteration of the loop
ValsLens(samples, checkpoints) ==
    [i \in 1..Len(checkpoints) |-> Len(Prefix(samples, checkpoints[i]))]

\* The whole call.  drawn is what randn(M) returns if it is called.
\* The outcome, the number of values taken from the generator, and the
\* locals M, samples, r and len(vals) per iteration as the call left them.
BSMonteCarlo(S0, K, T, sigma, checkpoints, rateCurve, samples, drawn) ==
    LET bad == CheckArgs(S0, K, T, sigma, checkpoints, rateCurve)
    IN  IF bad # ""
        THEN [out |-> Raise("ValueError", bad), draws |-> 0, M |-> 0,
              samples |-> <<>>, nvals |-> <<>>]
        ELSE
        LET M == SampleCount(checkpoints.val)
            generated == IsNone(samples)
            smp == IF generated THEN drawn ELSE samples.val
            draws == IF generated THEN M ELSE 0
        IN  IF ~generated /\ NotEnoughSamples(samples.val, M)
            THEN [out |-> Raise("ValueError", "Not enough samples"), draws |-> 0,
                  M |-> M, samples |-> smp, nvals |-> <<>>]
            ELSE
            LET rr == InterpolateRateCurve(rateCurve, Scalar(T), None)
            IN  IF rr.kind = "raise"
                THEN [out |-> rr, draws |-> draws, M |-> M, samples |-> smp,
                      nvals |-> <<>>]
                ELSE IF IsNone(rr.value)
                THEN [out |-> Raise("ValueError", "Unable to obtain r"),
                      draws |-> draws, M |-> M, samples |-> smp, nvals |-> <<>>]
                ELSE [out |-> Returned(RunningStats(S0, K, T, sigma,
                                 rr.value.val.x, smp, checkpoints.val)),
                      draws |-> draws, M |-> M, samples |-> smp,
                      nvals |-> ValsLens(smp, checkpoints.val)]

(***************************************************************************)
(* numpy arrays: a 2-D array is the sequence of its rows.                  *)
(***************************************************************************)
Rows(m) == Len(m)

Cols(m) == Len(m[1])

\* numpy.transpose of a 2-D array
Transpose(m) == [j \in 1..Cols(m) |-> [i \in 1..Rows(m) |-> m[i][j]]]

Array1(s) == [nd |-> 1, v |-> s]

Array2(m) == [nd |-> 2, m |-> m]

\* numpy broadcasting of a 1-D array of length n against a 2-D array m: the
\* vector lies along the last axis; an axis of length 1 is stretched
Broadcastable(n, m) == n = Cols(m) \/ n = 1 \/ Cols(m) = 1

BCols(n, m) == Max(n, Cols(m))

\* the element of vector v, and of row i of m, that meets column j
VAt(v, j) == v[IF Len(v) = 1 THEN 1 ELSE j]

MAt(m, i, j) == m[i][IF Cols(m) = 1 THEN 1 ELSE j]

\* numpy.cumsum(x, axis=0)
CumSum0(x) ==
    [i \in 1..Rows(x) |->
        [j \in 1..Cols(x) |-> Sum([k \in 1..i |-> x[k][j]])]]

RECURSIVE FProd(_)
FProd(s) == IF s = <<>> THEN SCALE ELSE FMul(Head(s), FProd(Tail(s)))

\* numpy.prod(x, axis=0): one value per column
Prod0(x) == [j \in 1..Cols(x) |-> FProd([k \in 1..Rows(x) |-> x[k][j]])]

(***************************************************************************)
(* MCStockPrices.py                                                        *)
(***************************************************************************)
HalfSq(sigma) == FMul(sigma, sigma) \div 2

\* StandardPrices stepping every fixing time over dt = t[0]
StandardPrices_FirstTime(S0, sigma, r, t, samples) ==
    LET ST == Transpose(samples)
    IN  [i \in 1..Rows(ST) |->
            [j \in 1..BCols(Len(t), ST) |->
                FMul(S0, Exp(FMul(r[1] - HalfSq(sigma), t[1])
                             + FMul(FMul(sigma, Sqrt(t[1])), MAt(ST, i, j))))]]

\* line 69: S0*exp((r-0.5*sigma**2)*t + sigma*sqrt(t)*transpose(samples))
StandardPrices(S0, sigma, r, t, samples) ==
    LET ST == Transpose(samples)
        A == [i \in 1..Len(t) |-> FMul(r[i] - HalfSq(sigma), t[i])]
        B == [i \in 1..Len(t) |-> FMul(sigma, Sqrt(t[i]))]
    IN  [i \in 1..Rows(ST) |->
            [j \in 1..BCols(Len(t), ST) |->
                FMul(S0, Exp(VAt(A, j) + FMul(VAt(B, j), MAt(ST, i, j))))]]

\* line 73, the argument of cumsum:
\* (r-0.5*sigma**2)*dt + sigma*sqrt(dt)*transpose(samples)
EulerIncrements(sigma, r, dt, samples) ==
    LET ST == Transpose(samples)
        A == [i \in 1..Len(r) |-> FMul(r[i] - HalfSq(sigma), dt)]
    IN  [i \in 1..Rows(ST) |->
            [j \in 1..BCols(Len(r), ST) |->
                VAt(A, j) + FMul(FMul(sigma, Sqrt(dt)), MAt(ST, i, j))]]

\* line 73: S0*exp(cumsum(..., axis=0))
EulerPrices(S0, sigma, r, dt, samples) ==
    LET Y == CumSum0(EulerIncrements(sigma, r, dt, samples))
    IN  [i \in 1..Rows(Y) |-> [j \in 1..Cols(Y) |-> FMul(S0, Exp(Y[i][j]))]]

\* line 77, the argument of prod:
\* 1.+(r)*dt+sigma*sqrt(dt)*Z+0.5*sigma*sigma*(Z**2*dt-dt), Z = transpose(samples)
MilsteinFactors(sigma, r, dt, samples) ==
    LET ST == Transpose(samples)
    IN  [i \in 1..Rows(ST) |->
            [j \in 1..BCols(Len(r), ST) |->
                LET z == MAt(ST, i, j)
                IN  SCALE + FMul(VAt(r, j), dt) + FMul(FMul(sigma, Sqrt(dt)), z)
                    + FMul(HalfSq(sigma), FMul(FMul(z, z), dt) - dt)]]

\* line 77: S0*prod(..., axis=0)
MilsteinPrices(S0, sigma, r, dt, samples) ==
    LET P == Prod0(MilsteinFactors(sigma, r, dt, samples))
    IN  [j \in 1..Len(P) |-> FMul(S0, P[j])]

KnownIntegrators == {"standard", "euler", "milstein"}

\* lines 67-80: the switch over integrator, r a rate vector or None
Integrate(S0, sigma, r, t, samples, integrator) ==
    IF integrator \notin KnownIntegrators
    THEN Raise("ValueError", "Unknown integrator method")
    ELSE IF IsNone(r)
    THEN Raise("TypeError", "unsupported operand type(s): NoneType and float")
    ELSE IF ~Broadcastable(Len(t), Transpose(samples))
    THEN Raise("ValueError", "operands could not be broadcast together")
    ELSE IF integrator = "standard"
    THEN Returned(Array2(Transpose(
             StandardPrices(S0, sigma, r.val.v, t, samples))))
    ELSE IF integrator = "euler"
    THEN Returned(Array2(Transpose(
             EulerPrices(S0, sigma, r.val.v, t[1], samples))))
    ELSE Returned(Array1(MilsteinPrices(S0, sigma, r.val.v, t[1], samples)))

\* lines 55-82; t is a Python float (nd = 0) or a sequence of floats (nd = 1)
MCStockPrices(S0, sigma, rateCurve, t, samples, integrator) ==
    LET rr == InterpolateRateCurve(rateCurve, t, None)
    IN  IF rr.kind = "raise" THEN rr
        ELSE IF t.nd = 0
        THEN Raise("TypeError", "'float' object is not subscriptable")
        ELSE Integrate(S0, sigma, rr.value, t.v, samples, integrator)

(***************************************************************************)
(* Arguments the calls are made with.                                      *)
(***************************************************************************)
\* the curve of the module's own test (lines 147-148), and one of two rates
DemoCurve ==
    << 96, 96, 120, 132, 144, 156, 192, 336, 564, 828, 1476, 1752 >>

ShortCurve == << 96, 120 >>

CurveArgs == {None, Some(DemoCurve), Some(ShortCurve)}

S0Args == {NaN, 0, 10 * SCALE}

KArgs == {NaN, 0 - 5 * SCALE, 11 * SCALE}

TArgs == {NaN, 0, (5 * Yr) \div 2}

SigmaArgs == {NaN, 0, (4 * SCALE) \div 10}

SampleVals == {0 - SCALE, SCALE}

SeqsUpTo(S, n) == UNION {[1..k -> S] : k \in 0..n}

SampleArgs == {None} \cup {Some(s) : s \in SeqsUpTo(SampleVals, MaxSamples)}

CheckpointArgs ==
    {None} \cup {Some(c) : c \in SeqsUpTo(1..MaxSamples, MaxCheckpoints) \ {<<>>}}

\* fixing times: whole years, as one float or as an increasing sequence
TimeVals == {k * Yr : k \in 1..MaxDim}

Increasing(v) == \A i \in 1..(Len(v) - 1) : v[i] < v[i + 1]

TimeArgs ==
    {Scalar(x) : x \in TimeVals}
    \cup {Vector(v) : v \in {w \in SeqsUpTo(TimeVals, MaxDim) : w # <<>> /\ Increasing(w)}}

MatrixVals == {0, SCALE}

MatrixArgs ==
    UNION {[1..R -> [1..C -> MatrixVals]] : R \in 1..MaxDim, C \in 1..MaxDim}

IntegratorArgs == KnownIntegrators \cup {"heun"}

\* what randn(M) can return when the call reaches it
Randn(checkpoints, samples) ==
    IF IsNone(checkpoints) \/ ~IsNone(samples) THEN {<<>>}
    ELSE [1..SampleCount(checkpoints.val) -> SampleVals]

(***************************************************************************)
(* The process: a call with its arguments is made, the function runs and   *)
(* returns or raises.                                                      *)
(***************************************************************************)
InterpolateRateCurveCalls ==
    [fn : {"InterpolateRateCurve"}, curve : CurveArgs, T : TimeArgs]

BSMonteCarloCalls ==
    [fn : {"BSMonteCarlo"}, S0 : S0Args, K : KArgs, T : TArgs,
     sigma : SigmaArgs, checkpoints : CheckpointArgs, rateCurve : CurveArgs,
     samples : SampleArgs]

MCStockPricesCalls ==
    [fn : {"MCStockPrices"}, S0 : {10 * SCALE}, sigma : {(4 * SCALE) \div 10},
     rateCurve : CurveArgs, t : TimeArgs, samples : MatrixArgs,
     integrator : IntegratorArgs]

NoLocals == [M |-> 0, samples |-> <<>>, nvals |-> <<>>]

Init ==
    /\ pc = "called"
    /\ call \in InterpolateRateCurveCalls \cup BSMonteCarloCalls
                \cup MCStockPricesCalls
    /\ result = None
    /\ locals = NoLocals
    /\ rng = 0
    /\ rngEntry = 0

RunInterpolateRateCurve ==
    /\ pc = "called"
    /\ call.fn = "InterpolateRateCurve"
    /\ result' = InterpolateRateCurve(call.curve, call.T, None)
    /\ pc' = "returned"
    /\ UNCHANGED <<call, locals, rng, rngEntry>>

RunBSMonteCarlo ==
    /\ pc = "called"
    /\ call.fn = "BSMonteCarlo"
    /\ \E drawn \in Randn(call.checkpoints, call.samples) :
          LET res == BSMonteCarlo(call.S0, call.K, call.T, call.sigma,
                                  call.checkpoints, call.rateCurve,
                                  call.samples, drawn)
          IN  /\ result' = res.out
              /\ locals' = [M |-> res.M, samples |-> res.samples,
                            nvals |-> res.nvals]
              /\ rng' = rng + res.draws
    /\ pc' = "returned"
    /\ UNCHANGED <<call, rngEntry>>

RunMCStockPrices ==
    /\ pc = "called"
    /\ call.fn = "MCStockPrices"
    /\ result' = MCStockPrices(call.S0, call.sigma, call.rateCurve, call.t,
                               call.samples, call.integrator)
    /\ pc' = "returned"
    /\ UNCHANGED <<call, locals, rng, rngEntry>>

Next == RunInterpolateRateCurve \/ RunBSMonteCarlo \/ RunMCStockPrices

Spec == Init /\ [][Next]_vars

(***************************************************************************)
(* Vocabulary of the properties.                                           *)
(***************************************************************************)
BadScalar(x) == IsNaN(x) \/ x <= 0

BSCalled == pc = "returned" /\ call.fn = "BSMonteCarlo"

MCCalled == pc = "returned" /\ call.fn = "MCStockPrices"

ValidScalars ==
    ~BadScalar(call.S0) /\ ~BadScalar(call.K) /\ ~BadScalar(call.T)
    /\ ~BadScalar(call.sigma)

CurveMatchesTenors(c) == ~IsNone(c) /\ Len(c.val) = Len(RATE_CURVE_TENORS)

CurveMismatched(c) == ~IsNone(c) /\ Len(c.val) # Len(RATE_CURVE_TENORS)

\* the two error kinds: both are ValueError, told apart by what they report
IsInsufficientSamples(res) ==
    res.kind = "raise" /\ res.exc = "ValueError" /\ res.msg = "Not enough samples"

IsInvalidInput(res) ==
    res.kind = "raise" /\ res.exc = "ValueError" /\ res.msg # "Not enough samples"

StrictlyIncreasing(c) == \A i \in 1..(Len(c) - 1) : c[i] < c[i + 1]

NonDecreasing(c) == \A i \in 1..(Len(c) - 1) : c[i] <= c[i + 1]

MaxOf(c) == CHOOSE m \in {c[i] : i \in 1..Len(c)} : \A i \in 1..Len(c) : c[i] <= m

\* the rate at time x on a curve that matches the tenor grid
RateAt(curve, x) == Interp(x, RATE_CURVE_TENORS, curve.val)

\* the discounted call payoffs of a sample sequence
Payoffs(zs) ==
    [j \in 1..Len(zs) |->
        Payoff(call.S0, call.K, call.T, call.sigma,
               RateAt(call.rateCurve, call.T), zs[j])]

\* the exact step from S0 over elapsed time x with rate r and normal draw z
ExactStep(S0, sigma, r, x, z) ==
    FMul(S0, Exp(FMul(r - HalfSq(sigma), x) + FMul(FMul(sigma, Sqrt(x)), z)))

SameShape(a, b) == Rows(a) = Rows(b) /\ Cols(a) = Cols(b)

(***************************************************************************)
(* C1.  BSMonteCarlo raises ValueError (invalid input) and returns no      *)
(* record whenever one of S0, K, T, sigma is NaN or <= 0, or rateCurve or  *)
(* checkpoints is None, whatever the other arguments are, samples given    *)
(* or not.                                                                 *)
(***************************************************************************)
C1_BadArgsRejected ==
    (BSCalled /\ (BadScalar(call.S0) \/ BadScalar(call.K) \/ BadScalar(call.T)
                  \/ BadScalar(call.sigma) \/ IsNone(call.rateCurve)
                  \/ IsNone(call.checkpoints)))
    => IsInvalidInput(result)

C1_Witness ==
    /\ BSCalled
    /\ call.sigma = 0 /\ ~BadScalar(call.S0) /\ ~BadScalar(call.K)
    /\ ~BadScalar(call.T)
    /\ CurveMatchesTenors(call.rateCurve) /\ ~IsNone(call.checkpoints)
    /\ ~IsNone(call.samples)
    /\ IsInvalidInput(result)

(***************************************************************************)
(* C2.  With valid scalars, a curve that matches the tenor grid and        *)
(* samples supplied, BSMonteCarlo reports too few samples exactly when     *)
(* len(samples) < M, M the last checkpoint; with len(samples) >= M it      *)
(* returns a record.                                                       *)
(***************************************************************************)
C2_InsufficientSamplesIff ==
    (BSCalled /\ ValidScalars /\ CurveMatchesTenors(call.rateCurve)
     /\ ~IsNone(call.checkpoints) /\ ~IsNone(call.samples))
    => /\ IsInsufficientSamples(result)
            <=> Len(call.samples.val) < Last(call.checkpoints.val)
       /\ Len(call.samples.val) >= Last(call.checkpoints.val)
            => result.kind = "return"

C2_Witness ==
    /\ BSCalled /\ ValidScalars /\ CurveMatchesTenors(call.rateCurve)
    /\ ~IsNone(call.checkpoints) /\ ~IsNone(call.samples)
    /\ Len(call.samples.val) + 1 = Last(call.checkpoints.val)
    /\ IsInsufficientSamples(result)

(***************************************************************************)
(* C3.  For strictly increasing checkpoints and a call that returns, the   *)
(* record's Means, StdDevs and StdErrs are as long as checkpoints, entry i *)
(* of each is the statistic of the payoffs of the first checkpoints[i]     *)
(* samples of the one sample stream, and TV is the last mean.              *)
(***************************************************************************)
C3_RecordOverPrefixes ==
    (BSCalled /\ result.kind = "return"
     /\ StrictlyIncreasing(call.checkpoints.val))
    => LET cp == call.checkpoints.val
           rec == result.value
           stream == locals.samples
       IN  /\ ~IsNone(call.samples) => stream = call.samples.val
           /\ Len(rec.Means) = Len(cp)
           /\ Len(rec.StdDevs) = Len(cp)
           /\ Len(rec.StdErrs) = Len(cp)
           /\ \A i \in 1..Len(cp) :
                /\ cp[i] <= Len(stream)
                /\ rec.Means[i] = Mean(Payoffs(SubSeq(stream, 1, cp[i])))
                /\ rec.StdDevs[i] = Std(Payoffs(SubSeq(stream, 1, cp[i])))
                /\ rec.StdErrs[i] = Sem(Payoffs(SubSeq(stream, 1, cp[i])))
           /\ rec.TV = rec.Means[Len(cp)]

C3_Witness ==
    /\ BSCalled /\ result.kind = "return"
    /\ Len(call.checkpoints.val) = 2
    /\ StrictlyIncreasing(call.checkpoints.val)
    /\ result.value.Means[1] # result.value.Means[2]
    /\ result.value.TV = result.value.Means[2]

(***************************************************************************)
(* C4.  A curve whose length differs from the tenor grid makes             *)
(* InterpolateRateCurve return None, and makes every top-level call raise  *)
(* ValueError (invalid input): BSMonteCarlo, and MCStockPrices with each   *)
(* of the three known integrators.                                         *)
(***************************************************************************)
C4_MismatchedCurveInvalidInput ==
    /\ (pc = "returned" /\ call.fn = "InterpolateRateCurve"
        /\ CurveMismatched(call.curve))
       => result = Returned(None)
    /\ (BSCalled /\ ValidScalars /\ ~IsNone(call.checkpoints)
        /\ CurveMismatched(call.rateCurve)
        /\ (IsNone(call.samples)
            \/ Len(call.samples.val) >= Last(call.checkpoints.val)))
       => IsInvalidInput(result)
    /\ (MCCalled /\ call.t.nd = 1 /\ call.integrator \in KnownIntegrators
        /\ CurveMismatched(call.rateCurve))
       => IsInvalidInput(result)

(***************************************************************************)
(* C5.  MCStockPrices raises ValueError (invalid input) for every          *)
(* integrator outside standard, euler, milstein, whatever the other        *)
(* arguments: times a scalar or a sequence, any sample matrix, any curve.  *)
(***************************************************************************)
C5_UnknownIntegratorInvalidInput ==
    (MCCalled /\ call.integrator \notin KnownIntegrators)
    => IsInvalidInput(result)

(***************************************************************************)
(* C6.  For each known integrator and every sample matrix of P paths (rows)*)
(* by N fixing times (columns) with len(times) = N, a call that returns    *)
(* returns a matrix of the shape of the sample matrix.                     *)
(***************************************************************************)
C6_SameShapeAsSamples ==
    (MCCalled /\ call.integrator \in KnownIntegrators /\ call.t.nd = 1
     /\ Len(call.t.v) = Cols(call.samples) /\ result.kind = "return")
    => /\ result.value.nd = 2
       /\ SameShape(result.value.m, call.samples)

(***************************************************************************)
(* C7.  A call of BSMonteCarlo that raises has done no numerical work and  *)
(* has drawn nothing from the process-wide generator: its state is what it *)
(* was when the call was made.                                             *)
(***************************************************************************)
C7_FailedCallDrawsNothing ==
    (BSCalled /\ result.kind = "raise")
    => rng = rngEntry /\ locals.nvals = <<>>

(***************************************************************************)
(* C8.  For euler and milstein, samples laid out rows = paths, columns =   *)
(* time steps: the price of path j at fixing index i combines S0 with the  *)
(* steps 1..i of path j only (exp of the running sum of the increments for *)
(* euler, running product of the factors for milstein), one value for      *)
(* every fixing index of every path.                                       *)
(***************************************************************************)
C8_ChainedAlongTime ==
    (MCCalled /\ call.integrator \in {"euler", "milstein"} /\ call.t.nd = 1
     /\ Len(call.t.v) = Cols(call.samples) /\ result.kind = "return")
    => LET r == [i \in 1..Len(call.t.v) |-> RateAt(call.rateCurve, call.t.v[i])]
           dt == call.t.v[1]
           \* the step of path j at time index k, as the code computes it
           step(k, j) ==
               IF call.integrator = "euler"
               THEN EulerIncrements(call.sigma, r, dt, call.samples)[k][j]
               ELSE MilsteinFactors(call.sigma, r, dt, call.samples)[k][j]
           upTo(i, j) ==
               IF call.integrator = "euler"
               THEN FMul(call.S0, Exp(Sum([k \in 1..i |-> step(k, j)])))
               ELSE FMul(call.S0, FProd([k \in 1..i |-> step(k, j)]))
       IN  /\ result.value.nd = 2
           /\ SameShape(result.value.m, call.samples)
           /\ \A j \in 1..Rows(call.samples), i \in 1..Cols(call.samples) :
                 result.value.m[j][i] = upTo(i, j)

C10_MIsMaxAnyOrder ==
    (BSCalled /\ result.kind = "return")
    => LET cp == call.checkpoints.val
       IN  /\ locals.M = MaxOf(cp)
           /\ \A i \in 1..Len(cp) :
                 cp[i] <= Len(locals.samples) /\ locals.nvals[i] >= cp[i]

(***************************************************************************)
(* C10 as amended: the same for a non-decreasing list of checkpoints       *)
(* (duplicates allowed).                                                   *)
(***************************************************************************)
C10_MIsMaxNonDecreasing ==
    (BSCalled /\ result.kind = "return" /\ NonDecreasing(call.checkpoints.val))
    => LET cp == call.checkpoints.val
       IN  /\ locals.M = MaxOf(cp)
           /\ \A i \in 1..Len(cp) :
                 cp[i] <= Len(locals.samples) /\ locals.nvals[i] >= cp[i]

C10_Witness ==
    /\ BSCalled /\ result.kind = "return" /\ IsNone(call.samples)
    /\ Len(call.checkpoints.val) = 2
    /\ call.checkpoints.val[1] < call.checkpoints.val[2]
    /\ locals.M = call.checkpoints.val[2]
    /\ locals.nvals = call.checkpoints.val

====
